---- MODULE Spec2Model ----
(***************************************************************************)
(* Conditional compilation of std::char_traits<unsigned char> in           *)
(* DebugStringConvertible.cpp, as documented by                            *)
(* ios/Patches/debug_string_convertible_patch.h.                           *)
(*                                                                         *)
(* A build is a sequence of translation units.  Each unit is a text: the   *)
(* prefix header (when the unit has one), then the file holding the        *)
(* original or the patched block, once per inclusion.  The text is read    *)
(* line by line by a preprocessor (conditional stack, macro table) and a   *)
(* declaration collector (namespace, open struct, finished declarations).  *)
(***************************************************************************)
EXTENDS Integers, Sequences, FiniteSets

\* Number of translation units of a build.
NumTU == 2
\* Largest number of inclusions of the file in one translation unit.
MaxIncludes == 2

TUs == 1..NumTU

\* ------------------------------------------------------------------ text

\* One line of source text: its kind and up to two operands.
Line(k, x, y) == [kind |-> k, a |-> x, b |-> y]

\* The guard symbol tested by the patched block (line 26).
Guard == "_RCT_FOLLY_PREFIX_PCH"

\* The include guard of the file itself (standard include-guard behaviour).
HeaderGuard == "DEBUG_STRING_CONVERTIBLE_INCLUDED"

\* "## Original Code", lines 8-19.
OriginalCode ==
  << Line("namespace", "std", ""),
     Line("template", "", ""),
     Line("struct", "char_traits<unsigned char>", ""),
     Line("using", "char_type", "unsigned char"),
     Line("using", "int_type", "int"),
     Line("using", "off_type", "streamoff"),
     Line("using", "pos_type", "streampos"),
     Line("using", "state_type", "mbstate_t"),
     Line("blank", "", ""),
     Line("comment", "", ""),
     Line("endstruct", "", ""),
     Line("endnamespace", "std", "") >>

\* The patched block with the conditional dropped.
PatchedCodeUnguarded ==
  << Line("comment", "", ""),
     Line("namespace", "std", ""),
     Line("template", "", ""),
     Line("struct", "char_traits<unsigned char>", ""),
     Line("using", "char_type", "unsigned char"),
     Line("using", "int_type", "int"),
     Line("using", "off_type", "streamoff"),
     Line("using", "pos_type", "streampos"),
     Line("using", "state_type", "mbstate_t"),
     Line("blank", "", ""),
     Line("comment", "", ""),
     Line("endstruct", "", ""),
     Line("endnamespace", "std", "") >>

\* The patched block defining the symbol it tests, as an include guard would.
PatchedCodeDefinesGuard ==
  << Line("comment", "", ""),
     Line("ifndef", Guard, ""),
     Line("define", Guard, ""),
     Line("namespace", "std", ""),
     Line("template", "", ""),
     Line("struct", "char_traits<unsigned char>", ""),
     Line("using", "char_type", "unsigned char"),
     Line("using", "int_type", "int"),
     Line("using", "off_type", "streamoff"),
     Line("using", "pos_type", "streampos"),
     Line("using", "state_type", "mbstate_t"),
     Line("blank", "", ""),
     Line("comment", "", ""),
     Line("endstruct", "", ""),
     Line("endnamespace", "std", ""),
     Line("endif", "", "") >>

\* The patched block with one member alias changed.
PatchedCodeOtherAlias ==
  << Line("comment", "", ""),
     Line("ifndef", Guard, ""),
     Line("namespace", "std", ""),
     Line("template", "", ""),
     Line("struct", "char_traits<unsigned char>", ""),
     Line("using", "char_type", "unsigned char"),
     Line("using", "int_type", "unsigned int"),
     Line("using", "off_type", "streamoff"),
     Line("using", "pos_type", "streampos"),
     Line("using", "state_type", "mbstate_t"),
     Line("blank", "", ""),
     Line("comment", "", ""),
     Line("endstruct", "", ""),
     Line("endnamespace", "std", ""),
     Line("endif", "", "") >>

\* "## Patched Code", lines 25-39.
PatchedCode ==
  << Line("comment", "", ""),
     Line("ifndef", Guard, ""),
     Line("namespace", "std", ""),
     Line("template", "", ""),
     Line("struct", "char_traits<unsigned char>", ""),
     Line("using", "char_type", "unsigned char"),
     Line("using", "int_type", "int"),
     Line("using", "off_type", "streamoff"),
     Line("using", "pos_type", "streampos"),
     Line("using", "state_type", "mbstate_t"),
     Line("blank", "", ""),
     Line("comment", "", ""),
     Line("endstruct", "", ""),
     Line("endnamespace", "std", ""),
     Line("endif", "", "") >>

\* The specialization as the prefix header declares it (line 25: "now defined
\* in the prefix header").
PrefixSpecialization ==
  << Line("namespace", "std", ""),
     Line("template", "", ""),
     Line("struct", "char_traits<unsigned char>", ""),
     Line("using", "char_type", "unsigned char"),
     Line("using", "int_type", "int"),
     Line("using", "off_type", "streamoff"),
     Line("using", "pos_type", "streampos"),
     Line("using", "state_type", "mbstate_t"),
     Line("endstruct", "", ""),
     Line("endnamespace", "std", "") >>

\* What precedes the file in a unit: the definition of the guard symbol and
\* the specialization, each present or not.
PrefixHeader(c) ==
  (IF c.defineGuard THEN << Line("define", Guard, "") >> ELSE << >>)
    \o (IF c.provideSpec THEN PrefixSpecialization ELSE << >>)

\* The block a unit compiles.
Code(c) == IF c.patched THEN PatchedCode ELSE OriginalCode

\* The file holding the block, inside its include guard when it has one.
File(c, ig) ==
  IF ig
  THEN << Line("ifndef", HeaderGuard, ""), Line("define", HeaderGuard, "") >>
         \o Code(c) \o << Line("endif", "", "") >>
  ELSE Code(c)

RECURSIVE Repeat(_, _)
Repeat(s, n) == IF n = 0 THEN << >> ELSE s \o Repeat(s, n - 1)

\* The text of a translation unit.
TUText(c, ig) == PrefixHeader(c) \o Repeat(File(c, ig), c.nIncl)

\* ----------------------------------------------------------------- state

VARIABLES
  includeGuard,  \* whether the file has an include guard
  cfg,           \* per unit: how it is built
  tus,           \* per unit: the preprocessor's and the collector's state
  cur,           \* the unit being compiled
  result         \* the build's outcome: "building", "ok" or "error"

vars == << includeGuard, cfg, tus, cur, result >>

NoConfig == [defineGuard |-> FALSE, provideSpec |-> FALSE, nIncl |-> 0, patched |-> FALSE]

Fresh(st) ==
  [stage |-> st, pc |-> 1, macros |-> {}, cond |-> << >>, ns |-> "",
   tmpl |-> FALSE, open |-> << >>, decls |-> << >>]

\* A unit whose guard symbol is defined by the prefix header that provides the
\* specialization, and only by it.
ContractConfigs ==
  { [defineGuard |-> p, provideSpec |-> p, nIncl |-> n, patched |-> v] :
      p \in BOOLEAN, n \in 1..MaxIncludes, v \in BOOLEAN }

\* Any unit that compiles the patched block: the guard symbol and the
\* specialization each visible or not.
OpenConfigs ==
  { [defineGuard |-> g, provideSpec |-> p, nIncl |-> n, patched |-> TRUE] :
      g \in BOOLEAN, p \in BOOLEAN, n \in 1..MaxIncludes }

Text(t) == TUText(cfg[t], includeGuard)

Running == cur \in TUs /\ tus[cur].stage = "running"
AtLine == Running /\ tus[cur].pc <= Len(Text(cur))
CurLine == Text(cur)[tus[cur].pc]

\* A line is compiled when every enclosing conditional holds.
Active(s) == \A i \in 1..Len(s.cond) : s.cond[i]

\* #ifdef in place of #ifndef.
IfdefHolds(sym, macros) == sym \in macros

\* #ifndef SYM (line 26).
IfndefHolds(sym, macros) == sym \notin macros

Init ==
  /\ includeGuard = TRUE
  /\ cfg = [t \in TUs |-> NoConfig]
  /\ tus = [t \in TUs |-> Fresh("idle")]
  /\ cur = 1
  /\ result = "building"

InitOpen ==
  /\ includeGuard \in BOOLEAN
  /\ cfg = [t \in TUs |-> NoConfig]
  /\ tus = [t \in TUs |-> Fresh("idle")]
  /\ cur = 1
  /\ result = "building"

\* --------------------------------------------------------------- actions

Advance(s) == [s EXCEPT !.pc = @ + 1]

StartTU(configs) ==
  /\ cur \in TUs
  /\ tus[cur].stage = "idle"
  /\ \E c \in configs : cfg' = [cfg EXCEPT ![cur] = c]
  /\ tus' = [tus EXCEPT ![cur] = Fresh("running")]
  /\ UNCHANGED << includeGuard, cur, result >>

StepIfndef ==
  /\ AtLine
  /\ CurLine.kind = "ifndef"
  /\ LET s == tus[cur]
     IN tus' = [tus EXCEPT ![cur] =
                  Advance([s EXCEPT !.cond =
                     Append(@, Active(s) /\ IfndefHolds(CurLine.a, s.macros))])]
  /\ UNCHANGED << includeGuard, cfg, cur, result >>

StepEndif ==
  /\ AtLine
  /\ CurLine.kind = "endif"
  /\ Len(tus[cur].cond) > 0
  /\ tus' = [tus EXCEPT ![cur] =
               Advance([@ EXCEPT !.cond = SubSeq(@, 1, Len(@) - 1)])]
  /\ UNCHANGED << includeGuard, cfg, cur, result >>

StepDefine ==
  /\ AtLine
  /\ CurLine.kind = "define"
  /\ Active(tus[cur])
  /\ tus' = [tus EXCEPT ![cur] =
               Advance([@ EXCEPT !.macros = @ \cup {CurLine.a}])]
  /\ UNCHANGED << includeGuard, cfg, cur, result >>

StepSkipped ==
  /\ AtLine
  /\ CurLine.kind \notin {"ifndef", "endif"}
  /\ ~Active(tus[cur])
  /\ tus' = [tus EXCEPT ![cur] = Advance(@)]
  /\ UNCHANGED << includeGuard, cfg, cur, result >>

StepTrivia ==
  /\ AtLine
  /\ CurLine.kind \in {"comment", "blank"}
  /\ Active(tus[cur])
  /\ tus' = [tus EXCEPT ![cur] = Advance(@)]
  /\ UNCHANGED << includeGuard, cfg, cur, result >>

StepNamespace ==
  /\ AtLine
  /\ CurLine.kind = "namespace"
  /\ Active(tus[cur])
  /\ tus' = [tus EXCEPT ![cur] = Advance([@ EXCEPT !.ns = CurLine.a])]
  /\ UNCHANGED << includeGuard, cfg, cur, result >>

StepTemplate ==
  /\ AtLine
  /\ CurLine.kind = "template"
  /\ Active(tus[cur])
  /\ tus' = [tus EXCEPT ![cur] = Advance([@ EXCEPT !.tmpl = TRUE])]
  /\ UNCHANGED << includeGuard, cfg, cur, result >>

StepStruct ==
  /\ AtLine
  /\ CurLine.kind = "struct"
  /\ Active(tus[cur])
  /\ LET s == tus[cur]
     IN tus' = [tus EXCEPT ![cur] =
                  Advance([s EXCEPT
                     !.open = << [ns |-> s.ns, name |-> CurLine.a,
                                  spec |-> s.tmpl, at |-> s.pc,
                                  members |-> << >>] >>,
                     !.tmpl = FALSE])]
  /\ UNCHANGED << includeGuard, cfg, cur, result >>

StepUsing ==
  /\ AtLine
  /\ CurLine.kind = "using"
  /\ Active(tus[cur])
  /\ Len(tus[cur].open) = 1
  /\ tus' = [tus EXCEPT ![cur] =
               Advance([@ EXCEPT !.open[1].members =
                  Append(@, << CurLine.a, CurLine.b >>)])]
  /\ UNCHANGED << includeGuard, cfg, cur, result >>

StepEndStruct ==
  /\ AtLine
  /\ CurLine.kind = "endstruct"
  /\ Active(tus[cur])
  /\ Len(tus[cur].open) = 1
  /\ LET s == tus[cur]
     IN tus' = [tus EXCEPT ![cur] =
                  Advance([s EXCEPT !.decls = Append(@, s.open[1]),
                                    !.open = << >>])]
  /\ UNCHANGED << includeGuard, cfg, cur, result >>

StepEndNamespace ==
  /\ AtLine
  /\ CurLine.kind = "endnamespace"
  /\ Active(tus[cur])
  /\ tus' = [tus EXCEPT ![cur] = Advance([@ EXCEPT !.ns = ""])]
  /\ UNCHANGED << includeGuard, cfg, cur, result >>

EndTU ==
  /\ Running
  /\ tus[cur].pc > Len(Text(cur))
  /\ tus' = [tus EXCEPT ![cur].stage = "done"]
  /\ cur' = cur + 1
  /\ UNCHANGED << includeGuard, cfg, result >>

\* ----------------------------------------------------------- diagnostics

IsSpecialization(d) ==
  d.ns = "std" /\ d.name = "char_traits<unsigned char>" /\ d.spec

\* The definitions of std::char_traits<unsigned char> a unit holds.
Definitions(t) ==
  { i \in 1..Len(tus[t].decls) : IsSpecialization(tus[t].decls[i]) }

\* Those the file itself declared (after the prefix header).
LocalDefinitions(t) ==
  { i \in Definitions(t) : tus[t].decls[i].at > Len(PrefixHeader(cfg[t])) }

Done(t) == tus[t].stage = "done"

\* A second definition of the specialization in one unit is a redefinition,
\* which the compiler rejects.
DuplicateDefinition(t) == Cardinality(Definitions(t)) > 1

\* A unit without any definition of the specialization compiles: the block
\* does not use the specialization, and a use elsewhere falls back on the
\* primary template.
UnitInError(t) == DuplicateDefinition(t)

Link ==
  /\ cur = NumTU + 1
  /\ result = "building"
  /\ result' = IF \E t \in TUs : UnitInError(t)
               THEN "error" ELSE "ok"
  /\ UNCHANGED << includeGuard, cfg, tus, cur >>

Step ==
  \/ StepIfndef
  \/ StepEndif
  \/ StepDefine
  \/ StepSkipped
  \/ StepTrivia
  \/ StepNamespace
  \/ StepTemplate
  \/ StepStruct
  \/ StepUsing
  \/ StepEndStruct
  \/ StepEndNamespace

Next ==
  \/ StartTU(ContractConfigs)
  \/ Step
  \/ EndTU
  \/ Link

NextOpen ==
  \/ StartTU(OpenConfigs)
  \/ Step
  \/ EndTU
  \/ Link

\* Builds in which the guard symbol is defined by the prefix header alone and
\* the file has its include guard.
Spec == Init /\ [][Next]_vars

\* Builds of the patched block in which the guard symbol and the
\* specialization are visible independently, with or without an include guard
\* on the file.
SpecOpen == InitOpen /\ [][NextOpen]_vars

\* ---------------------------------------------------------------- claims

AllPatched == \A t \in TUs : cfg[t].patched
Built == result # "building"
NumDefinitions(t) == Cardinality(Definitions(t))

\* A declaration without the line it was found at.
Shape(d) == [ns |-> d.ns, name |-> d.name, spec |-> d.spec, members |-> d.members]
Shapes(t) == [i \in 1..Len(tus[t].decls) |-> Shape(tus[t].decls[i])]

\* The lines of a block that declare something.
Declaring(code) ==
  SelectSeq(code, LAMBDA l : l.kind \notin {"comment", "blank", "ifndef", "endif"})

\* The file's own text is being read, or has been read.
InFile(t) ==
  /\ tus[t].stage # "idle"
  /\ tus[t].pc > Len(PrefixHeader(cfg[t]))

\* C1: a unit that compiles the patched block with the guard symbol defined
\* gets no declaration of std::char_traits<unsigned char> from the block, and
\* never holds more than one definition of it.
C1_GuardDefinedEmitsNothing ==
  \A t \in TUs :
    (tus[t].stage # "idle" /\ cfg[t].patched /\ cfg[t].defineGuard)
      => (LocalDefinitions(t) = {} /\ ~DuplicateDefinition(t))

C1_Witness ==
  \E t \in TUs :
    /\ Done(t) /\ cfg[t].patched /\ cfg[t].defineGuard /\ cfg[t].provideSpec
    /\ Guard \in tus[t].macros
    /\ NumDefinitions(t) = 1

\* C2: a unit that compiles the patched block with the guard symbol undefined
\* ends with exactly one definition of the specialization, the one the block
\* itself declared.
C2_GuardUndefinedDeclaresOnce ==
  \A t \in TUs :
    (Done(t) /\ cfg[t].patched /\ ~cfg[t].defineGuard)
      => (NumDefinitions(t) = 1 /\ LocalDefinitions(t) = Definitions(t))

C2_Witness ==
  \E t \in TUs :
    /\ Done(t) /\ cfg[t].patched /\ ~cfg[t].defineGuard
    /\ Guard \notin tus[t].macros
    /\ Cardinality(LocalDefinitions(t)) = 1

\* C3: every unit that compiles the patched block, with the prefix header
\* before it or without, ends with exactly one definition of the
\* specialization.
C3_ExactlyOnePerUnit ==
  \A t \in TUs : (Done(t) /\ cfg[t].patched) => NumDefinitions(t) = 1

C3_Witness ==
  \E t1, t2 \in TUs :
    /\ Done(t1) /\ cfg[t1].patched /\ cfg[t1].provideSpec
    /\ Done(t2) /\ cfg[t2].patched /\ ~cfg[t2].provideSpec
    /\ NumDefinitions(t1) = 1 /\ NumDefinitions(t2) = 1

\* C4: two units that compile the patched block in the same setting and differ
\* only in how often they include the file end with the same declarations,
\* whenever the file has its include guard (and also without it when the guard
\* symbol is defined); the repeated inclusion adds no definition.
C4_InclusionIdempotent ==
  \A t1, t2 \in TUs :
    ( /\ Done(t1) /\ Done(t2)
      /\ cfg[t1].patched /\ cfg[t2].patched
      /\ cfg[t1].defineGuard = cfg[t2].defineGuard
      /\ cfg[t1].provideSpec = cfg[t2].provideSpec
      /\ includeGuard \/ cfg[t1].defineGuard )
      => /\ tus[t1].decls = tus[t2].decls
         /\ Cardinality(LocalDefinitions(t1)) <= 1

C4_Witness ==
  \E t1, t2 \in TUs :
    /\ includeGuard
    /\ Done(t1) /\ Done(t2)
    /\ cfg[t1].patched /\ cfg[t2].patched
    /\ ~cfg[t1].defineGuard /\ ~cfg[t2].defineGuard
    /\ ~cfg[t1].provideSpec /\ ~cfg[t2].provideSpec
    /\ cfg[t1].nIncl = 1 /\ cfg[t2].nIncl >= 2
    /\ Len(tus[t2].decls) = 1

GuardInconsistent == \E t1, t2 \in TUs : cfg[t1].defineGuard # cfg[t2].defineGuard
VisibleEverywhere == \A t \in TUs : cfg[t].provideSpec

\* C5 as stated: a build of the patched block whose units disagree on the
\* guard symbol ends in a duplicate-definition or missing-definition error.
C5_InconsistentGuardFails ==
  (Built /\ AllPatched /\ GuardInconsistent) => result = "error"

\* C5 as amended: a build of the patched block whose units disagree on the
\* guard symbol while the prefix header's specialization is visible in every
\* unit ends in a duplicate-definition error, raised in a unit where the guard
\* symbol is undefined.
C5_InconsistentGuardVisibleEverywhereFails ==
  (Built /\ AllPatched /\ GuardInconsistent /\ VisibleEverywhere)
    => /\ result = "error"
       /\ \E t \in TUs : ~cfg[t].defineGuard /\ DuplicateDefinition(t)
       /\ \A t \in TUs : cfg[t].defineGuard => ~UnitInError(t)

C5_Witness ==
  /\ Built /\ AllPatched /\ GuardInconsistent /\ VisibleEverywhere
  /\ result = "error"

\* Every unit reads the block at most once: the file has its include guard or
\* is included once.
ReadOnce == includeGuard \/ \A t \in TUs : cfg[t].nIncl = 1

\* The guard symbol is defined in a unit exactly when the prefix header's
\* specialization is visible there.
GuardMatchesVisibility(t) == cfg[t].defineGuard = cfg[t].provideSpec

\* C6 as stated: a finished build of the patched block whose units all agree
\* on the guard symbol has exactly one definition of the specialization in
\* every unit and ends without error.
C6_ConsistentGuardSucceeds ==
  (Built /\ AllPatched /\ ~GuardInconsistent)
    => /\ \A t \in TUs : NumDefinitions(t) = 1
       /\ result = "ok"

\* C6 as amended: a finished build of the patched block whose units all agree
\* on the guard symbol and read the block at most once has exactly one
\* definition of the specialization in every unit, and no error, when the
\* guard symbol is defined exactly where the prefix header's specialization is
\* visible; a unit with the guard symbol defined and no specialization visible
\* ends with none, and a unit with the guard symbol undefined and the
\* specialization visible ends with two and fails the build.
C6_ConsistentMatchingGuardSucceeds ==
  (Built /\ AllPatched /\ ~GuardInconsistent /\ ReadOnce)
    => /\ (\A t \in TUs : GuardMatchesVisibility(t))
            => (result = "ok" /\ \A t \in TUs : NumDefinitions(t) = 1)
       /\ \A t \in TUs :
            (cfg[t].defineGuard /\ ~cfg[t].provideSpec)
              => (NumDefinitions(t) = 0 /\ ~UnitInError(t))
       /\ \A t \in TUs :
            (~cfg[t].defineGuard /\ cfg[t].provideSpec)
              => (NumDefinitions(t) = 2 /\ result = "error")

C6_Witness ==
  /\ Built /\ AllPatched /\ ~GuardInconsistent /\ ReadOnce
  /\ \A t \in TUs : GuardMatchesVisibility(t)
  /\ \A t \in TUs : cfg[t].defineGuard /\ Guard \in tus[t].macros
  /\ \E t \in TUs : cfg[t].nIncl >= 2
  /\ result = "ok"

\* C7: after a prefix header that defines the specialization, the original
\* block leaves two definitions in the unit (a redefinition) and the patched
\* block leaves exactly one.
C7_PatchPreventsRedefinition ==
  \A t \in TUs :
    (Done(t) /\ cfg[t].provideSpec)
      => IF cfg[t].patched
         THEN NumDefinitions(t) = 1 /\ ~DuplicateDefinition(t)
         ELSE NumDefinitions(t) = 2 /\ DuplicateDefinition(t)

C7_Witness ==
  \E t1, t2 \in TUs :
    /\ Done(t1) /\ cfg[t1].provideSpec /\ ~cfg[t1].patched
    /\ Done(t2) /\ cfg[t2].provideSpec /\ cfg[t2].patched
    /\ NumDefinitions(t1) = 2 /\ NumDefinitions(t2) = 1

\* The specialization both blocks spell out.
ExpectedSpecialization ==
  [ns |-> "std", name |-> "char_traits<unsigned char>", spec |-> TRUE,
   members |-> << << "char_type", "unsigned char" >>, << "int_type", "int" >>,
                  << "off_type", "streamoff" >>, << "pos_type", "streampos" >>,
                  << "state_type", "mbstate_t" >> >>]

\* C8: with the guard symbol undefined, a unit that compiles the patched block
\* and a unit that compiles the original block end with the same declarations:
\* the one specialization std::char_traits<unsigned char> with its five member
\* aliases and nothing else; and the patched block's declaring lines are the
\* original block's.
C8_PatchedEqualsOriginalWhenUndefined ==
  /\ Declaring(PatchedCode) = Declaring(OriginalCode)
  /\ \A t \in TUs :
       (Done(t) /\ cfg[t].patched /\ ~cfg[t].defineGuard)
         => Shapes(t) = << ExpectedSpecialization >>
  /\ \A t1, t2 \in TUs :
       ( /\ Done(t1) /\ cfg[t1].patched /\ ~cfg[t1].defineGuard
         /\ Done(t2) /\ ~cfg[t2].patched /\ ~cfg[t2].defineGuard )
         => Shapes(t1) = Shapes(t2)

C8_Witness ==
  \E t1, t2 \in TUs :
    /\ Done(t1) /\ cfg[t1].patched /\ ~cfg[t1].defineGuard
    /\ Done(t2) /\ ~cfg[t2].patched /\ ~cfg[t2].defineGuard
    /\ Len(tus[t1].decls) = 1 /\ Len(tus[t2].decls) = 1

\* C9: no step taken while a unit reads the patched block changes whether the
\* guard symbol is defined in that unit.
C9_GuardSymbolUnchanged ==
  [][ \A t \in TUs :
        (InFile(t) /\ cfg[t].patched)
          => ((Guard \in tus'[t].macros) <=> (Guard \in tus[t].macros)) ]_vars

C9_Witness ==
  \E t1, t2 \in TUs :
    /\ Done(t1) /\ cfg[t1].patched /\ Guard \in tus[t1].macros
    /\ Cardinality(LocalDefinitions(t1)) = 0
    /\ Done(t2) /\ cfg[t2].patched /\ Guard \notin tus[t2].macros
    /\ Cardinality(LocalDefinitions(t2)) = 1

====
